---- MODULE Spec2Model ----
(***************************************************************************)
(* Model of the A1 range-notation codec of gsheets/sheets_tools.py         *)
(* (_convert_indices_to_a1, _parse_a1_to_indices) and of the batchUpdate   *)
(* tools that consume it (format_cells, merge_cells, unmerge_cells,        *)
(* create_named_range, add_data_validation, clear_data_validation,         *)
(* add_conditional_formatting).                                            *)
(*                                                                         *)
(* Text is a sequence of Unicode code points, so that ord() and chr() are  *)
(* arithmetic on the elements: "A1" is <<65, 49>>.  An Optional value is a *)
(* sequence of length at most one: None is << >>, the value x is <<x>>.    *)
(***************************************************************************)
EXTENDS Integers, Sequences, FiniteSets, TLC

VARIABLES
    pc,         \* position of the codec call / of the tool invocation
    a1_range,   \* argument of _parse_a1_to_indices
    parsed,     \* its return value (a 5-tuple, here a record)
    coords,     \* arguments of _convert_indices_to_a1
    a1,         \* its return value
    tool,       \* name of the tool invoked
    range_name, \* the tool's range_name argument
    opts,       \* the tool's other arguments that decide its control flow
    sheets,     \* the service's sheets: sequence of [title, sheetId]
    dispatched, \* batchUpdate request bodies sent, in order
    outcome,    \* how the invocation ended
    merged_regions, \* read_sheet_values: the merges it found to overlap
    displayed,  \* read_sheet_values: the data rows it formatted
    log,        \* warnings logged
    procs,      \* concurrent invocations of the pure helpers
    frames      \* their local variables, by frame

vars == <<pc, a1_range, parsed, coords, a1, tool, range_name, opts, sheets,
          dispatched, outcome, merged_regions, displayed, log, procs, frames>>

codecVars == <<a1_range, parsed, coords, a1>>
toolVars == <<tool, range_name, opts, sheets, dispatched, outcome>>
readVars == <<merged_regions, displayed, log>>
parVars == <<procs, frames>>

----------------------------------------------------------------------------
(* Optional values *)

None == << >>
Some(x) == <<x>>
IsNone(o) == o = << >>
Val(o) == o[1]

----------------------------------------------------------------------------
(* Characters *)

OrdA == 65
Radix == 26
ChBang == 33
ChColon == 58
ChZero == 48

IsUpper(c) == c \in OrdA .. (OrdA + 25)
IsDigit(c) == c \in ChZero .. (ChZero + 9)

RECURSIVE Pow(_, _)
Pow(b, e) == IF e = 0 THEN 1 ELSE b * Pow(b, e - 1)

Reversed(s) == [i \in 1 .. Len(s) |-> s[Len(s) + 1 - i]]

\* str(n) for an int n >= 0, as the f-strings format it
RECURSIVE StrNat(_)
StrNat(n) == IF n < 10 THEN <<ChZero + n>>
             ELSE Append(StrNat(n \div 10), ChZero + (n % 10))

\* int(s) for a string s of ASCII digits
RECURSIVE IntOfDigits(_)
IntOfDigits(s) ==
    IF Len(s) = 0 THEN 0
    ELSE 10 * IntOfDigits(SubSeq(s, 1, Len(s) - 1)) + (s[Len(s)] - ChZero)

----------------------------------------------------------------------------
(* _convert_indices_to_a1 *)

col_to_letter(col) ==
    IF col < Radix
    THEN <<OrdA + col>>
    ELSE <<OrdA + (col \div Radix) - 1, OrdA + (col % Radix)>>

_convert_indices_to_a1(start_row, end_row, start_col, end_col) ==
    LET start_col_letter == col_to_letter(start_col)
        end_col_letter == col_to_letter(end_col - 1)
    IN  start_col_letter \o StrNat(start_row + 1) \o <<ChColon>>
            \o end_col_letter \o StrNat(end_row)

----------------------------------------------------------------------------
(* _parse_a1_to_indices *)

\* '!' in s, and s.split('!', 1)
RECURSIVE FindFirst(_, _, _)
FindFirst(s, c, i) ==
    IF i > Len(s) THEN 0
    ELSE IF s[i] = c THEN i
    ELSE FindFirst(s, c, i + 1)

SplitSheet(s) ==
    LET k == FindFirst(s, ChBang, 1)
    IN  IF k > 0
        THEN [sheet_name |-> Some(SubSeq(s, 1, k - 1)),
              rest |-> SubSeq(s, k + 1, Len(s))]
        ELSE [sheet_name |-> None, rest |-> s]

\* Length of the longest run of upper-case letters (digits) of s that
\* starts at position i: what a greedy [A-Z]+ (\d+) consumes there.  The
\* classes [A-Z], \d and ':' are disjoint, so backtracking to a shorter run
\* never makes the rest of either pattern match.
RECURSIVE UpperRun(_, _)
UpperRun(s, i) ==
    IF i <= Len(s) /\ IsUpper(s[i]) THEN 1 + UpperRun(s, i + 1) ELSE 0

RECURSIVE DigitRun(_, _)
DigitRun(s, i) ==
    IF i <= Len(s) /\ IsDigit(s[i]) THEN 1 + DigitRun(s, i + 1) ELSE 0

\* re.match(r'([A-Z]+)(\d+):([A-Z]+)(\d+)', s): anchored at the start of s
\* only; the groups, or None.
MatchRange(s) ==
    LET n1 == UpperRun(s, 1)
        p2 == 1 + n1
        n2 == DigitRun(s, p2)
        p3 == p2 + n2
        n3 == UpperRun(s, p3 + 1)
        p4 == p3 + 1 + n3
        n4 == DigitRun(s, p4)
    IN  IF /\ n1 >= 1
           /\ n2 >= 1
           /\ p3 <= Len(s)
           /\ s[p3] = ChColon
           /\ n3 >= 1
           /\ n4 >= 1
        THEN Some(<<SubSeq(s, 1, n1), SubSeq(s, p2, p3 - 1),
                    SubSeq(s, p3 + 1, p4 - 1), SubSeq(s, p4, p4 + n4 - 1)>>)
        ELSE None

\* re.match(r'([A-Z]+)(\d+)', s)
MatchCell(s) ==
    LET n1 == UpperRun(s, 1)
        n2 == DigitRun(s, 1 + n1)
    IN  IF n1 >= 1 /\ n2 >= 1
        THEN Some(<<SubSeq(s, 1, n1), SubSeq(s, 1 + n1, n1 + n2)>>)
        ELSE None

\* sum((ord(c) - 65) * (26 ** i) for i, c in enumerate(reversed(col)))
RECURSIVE ColSumFrom(_, _)
ColSumFrom(rev, i) ==
    IF i >= Len(rev) THEN 0
    ELSE (rev[i + 1] - OrdA) * Pow(Radix, i) + ColSumFrom(rev, i + 1)

\* a decoder that reads the letters as spreadsheet column names (A = 1,
\* bijective base 26) instead
RECURSIVE ColSumBijective(_, _)
ColSumBijective(rev, i) ==
    IF i >= Len(rev) THEN 0
    ELSE (rev[i + 1] - OrdA + 1) * Pow(Radix, i) + ColSumBijective(rev, i + 1)

ColIdx_bijective(col) == ColSumBijective(Reversed(col), 0) - 1

ColIdx(col) == ColSumFrom(Reversed(col), 0)

Parsed(sheet_name, start_row, end_row, start_col, end_col) ==
    [sheet_name |-> sheet_name, start_row |-> start_row,
     end_row |-> end_row, start_col |-> start_col, end_col |-> end_col]

\* a single-cell return that keeps the row one-based
CellResult_one_based(sheet_name, g) ==
    LET col == g[1]
        row == IntOfDigits(g[2])
        col_idx == ColIdx(col)
    IN  Parsed(sheet_name, Some(row), Some(row + 1), Some(col_idx),
               Some(col_idx + 1))

\* the single-cell return: sheet_name, row - 1, row, col_idx, col_idx + 1
CellResult(sheet_name, g) ==
    LET col == g[1]
        row == IntOfDigits(g[2])
        col_idx == ColIdx(col)
    IN  Parsed(sheet_name, Some(row - 1), Some(row), Some(col_idx),
               Some(col_idx + 1))

\* a two-corner return that keeps the end column inclusive
RangeResult_inclusive_end(sheet_name, g) ==
    LET start_col_idx == ColIdx(g[1])
        end_col_idx == ColIdx(g[3])
    IN  Parsed(sheet_name, Some(IntOfDigits(g[2]) - 1),
               Some(IntOfDigits(g[4])), Some(start_col_idx),
               Some(end_col_idx))

\* the two-corner return: sheet_name, int(start_row) - 1, int(end_row),
\* start_col_idx, end_col_idx
RangeResult(sheet_name, g) ==
    LET start_col_idx == ColIdx(g[1])
        end_col_idx == ColIdx(g[3]) + 1
    IN  Parsed(sheet_name, Some(IntOfDigits(g[2]) - 1),
               Some(IntOfDigits(g[4])), Some(start_col_idx),
               Some(end_col_idx))

_parse_a1_to_indices(text) ==
    LET sp == SplitSheet(text)
        sheet_name == sp.sheet_name
        match == MatchRange(sp.rest)
        cell == MatchCell(sp.rest)
    IN  IF IsNone(match)
        THEN IF ~IsNone(cell)
             THEN CellResult(sheet_name, Val(cell))
             ELSE Parsed(sheet_name, None, None, None, None)
        ELSE RangeResult(sheet_name, Val(match))

----------------------------------------------------------------------------
(* Inputs of the codec *)

MaxLen == 4
MaxRow == 3
MaxCol == 28

\* A B Z, 0 1, ':', '!', b, x
Alphabet == {65, 66, 90, 48, 49, 58, 33, 98, 120}

RECURSIVE StringsUpTo(_)
StringsUpTo(n) ==
    IF n = 0 THEN {<< >>}
    ELSE LET shorter == StringsUpTo(n - 1)
         IN  shorter \cup {Append(s, c) : s \in {t \in shorter : Len(t) = n - 1},
                                          c \in Alphabet}

\* "S", "Sheet1", "S!T"
SheetNames == {<<83>>, <<83, 104, 101, 101, 116, 49>>, <<83, 33, 84>>}

\* "", and each sheet name followed by '!'
SheetPrefixes == {<< >>} \cup {Append(n, ChBang) : n \in SheetNames}

\* A B C Z AA AZ BA ABC
ColTokens ==
    {<<65>>, <<66>>, <<67>>, <<90>>, <<65, 65>>, <<65, 90>>, <<66, 65>>,
     <<65, 66, 67>>}

\* the same, and "", "b": not column names
ColLikeTokens == ColTokens \cup {<< >>, <<98>>}

\* 1 2 4 10
RowTokens == {<<49>>, <<50>>, <<52>>, <<49, 48>>}

\* 0
ZeroRowTokens == {<<48>>}

\* the same, and "": not a row number
RowLikeTokens == RowTokens \cup ZeroRowTokens \cup {<< >>}

\* "", "x"
Tails == {<< >>, <<120>>}

Cells == {c \o r : c \in ColLikeTokens, r \in RowLikeTokens}

TwoCorner == {c \o <<ChColon>> \o d : c \in Cells, d \in Cells}

\* "A1B2", "L1:M3", "A1:B3", "AAA1", "ZZ1:ZZ2"
MoreTexts ==
    {<<65, 49, 66, 50>>, <<76, 49, 58, 77, 51>>, <<65, 49, 58, 66, 51>>,
     <<65, 65, 65, 49>>, <<90, 90, 49, 58, 90, 90, 50>>}

Texts ==
    StringsUpTo(MaxLen)
        \cup {p \o s \o t : p \in SheetPrefixes, s \in Cells \cup TwoCorner,
                            t \in Tails}
        \cup MoreTexts

\* 0 .. MaxCol, and the last two-letter and three-letter columns' neighbours
ColIndices == (0 .. MaxCol) \cup {51, 52, 701, 702, 18277}

Grids ==
    {g \in [start_row : 0 .. MaxRow, end_row : 1 .. MaxRow + 1,
            start_col : ColIndices, end_col : {c + 1 : c \in ColIndices}] :
        g.start_row < g.end_row /\ g.start_col < g.end_col}

NoGrid == [start_row |-> 0, end_row |-> 0, start_col |-> 0, end_col |-> 0]
NoParse == Parsed(None, None, None, None, None)

----------------------------------------------------------------------------
(* The codec called on its own *)

InitCodec ==
    /\ pc \in {"decode", "encode"}
    /\ IF pc = "decode"
       THEN a1_range \in Texts /\ coords = NoGrid
       ELSE a1_range = << >> /\ coords \in Grids
    /\ parsed = NoParse
    /\ a1 = << >>

\* sheet_name, start_row_idx, ... = _parse_a1_to_indices(a1_range)
Decode ==
    /\ pc = "decode"
    /\ parsed' = _parse_a1_to_indices(a1_range)
    /\ pc' = "decoded"
    /\ UNCHANGED <<a1_range, coords, a1>>
    /\ UNCHANGED toolVars
    /\ UNCHANGED <<readVars, parVars>>

\* a1 = _convert_indices_to_a1(start_row, end_row, start_col, end_col)
Encode ==
    /\ pc = "encode"
    /\ a1' = _convert_indices_to_a1(coords.start_row, coords.end_row,
                                    coords.start_col, coords.end_col)
    /\ pc' = "encoded"
    /\ UNCHANGED <<a1_range, coords, parsed>>
    /\ UNCHANGED toolVars
    /\ UNCHANGED <<readVars, parVars>>

\* _parse_a1_to_indices(_convert_indices_to_a1(...))
DecodeEncoded ==
    /\ pc = "encoded"
    /\ parsed' = _parse_a1_to_indices(a1)
    /\ pc' = "round_trip"
    /\ UNCHANGED <<a1_range, coords, a1>>
    /\ UNCHANGED toolVars
    /\ UNCHANGED <<readVars, parVars>>

\* _convert_indices_to_a1(*_parse_a1_to_indices(...)[1:]) for a text that
\* decoded
EncodeDecoded ==
    /\ pc = "decoded"
    /\ ~IsNone(parsed.start_row)
    /\ a1' = _convert_indices_to_a1(Val(parsed.start_row), Val(parsed.end_row),
                                    Val(parsed.start_col), Val(parsed.end_col))
    /\ pc' = "re_encoded"
    /\ UNCHANGED <<a1_range, coords, parsed>>
    /\ UNCHANGED toolVars
    /\ UNCHANGED <<readVars, parVars>>

----------------------------------------------------------------------------
(* Inputs of the tools *)

MaxSheets == 2

\* "S", "T", "S!T"
Titles == {<<83>>, <<84>>, <<83, 33, 84>>}

\* the sheetId the service gave each sheet
SheetIdOf(title) == IF title = <<83>> THEN 0 ELSE IF title = <<84>> THEN 1 ELSE 2

\* what spreadsheets().get(...).execute() can return as "sheets": up to
\* MaxSheets sheets with distinct titles, in any order
RECURSIVE SheetListsOfLen(_)
SheetListsOfLen(n) ==
    IF n = 0 THEN {<< >>}
    ELSE {Append(l, [title |-> t, sheetId |-> SheetIdOf(t)]) :
            l \in SheetListsOfLen(n - 1),
            t \in Titles} 

DistinctTitles(l) ==
    \A i, j \in 1 .. Len(l) : l[i].title = l[j].title => i = j

SheetLists ==
    UNION {{l \in SheetListsOfLen(n) : DistinctTitles(l)} : n \in 0 .. MaxSheets}

\* "S!A1:B2", "S!B2", "S!A:B", "S!", "T!A1:B2", "A1:B2", "A:B", "",
\* "S!T!A1", "S!A0", "S!B2:A1", "S!A1:B2x", "X!A1", "S!A4:B2", "S!A1:C5"
ToolRanges ==
    {<<83, 33, 65, 49, 58, 66, 50>>, <<83, 33, 66, 50>>,
     <<83, 33, 65, 58, 66>>, <<83, 33>>, <<84, 33, 65, 49, 58, 66, 50>>,
     <<65, 49, 58, 66, 50>>, <<65, 58, 66>>, << >>,
     <<83, 33, 84, 33, 65, 49>>, <<83, 33, 65, 48>>,
     <<83, 33, 66, 50, 58, 65, 49>>, <<83, 33, 65, 49, 58, 66, 50, 120>>,
     <<88, 33, 65, 49>>, <<83, 33, 65, 52, 58, 66, 50>>,
     <<83, 33, 65, 49, 58, 67, 53>>}

RangeTools ==
    {"format_cells", "merge_cells", "unmerge_cells", "create_named_range",
     "add_data_validation", "clear_data_validation",
     "add_conditional_formatting"}

\* format_cells: which of the formatting arguments are truthy
FormatOpts ==
    {[supplied |-> f] :
        f \in {{}, {"background_color"}, {"borders"},
               {"text_format", "horizontal_alignment"},
               {"vertical_alignment", "number_format"}}}

MergeOpts ==
    {[merge_type |-> m] :
        m \in {"MERGE_ALL", "MERGE_COLUMNS", "MERGE_ROWS", "OTHER"}}

\* add_data_validation: validation_type, the keys validation_config has and
\* the value of its "condition" key (None: no such key)
ValidationOpts ==
    [validation_type : {"LIST", "NUMBER", "DATE", "TEXT_LENGTH", "CUSTOM",
                        "CHECKBOX", "OTHER"},
     keys : {{}, {"values"}, {"range"}, {"value"}, {"formula"}},
     condition : {None, Some("BETWEEN"), Some("LESS_THAN")}]

\* add_conditional_formatting: rule_type and the keys rule_config has
CondFormatOpts ==
    [rule_type : {"SINGLE_COLOR", "COLOR_SCALE", "DATA_BAR", "CUSTOM_FORMULA",
                  "OTHER"},
     keys : {{}, {"formula"}}]

NoOpts == [none |-> TRUE]

OptsOf(t) ==
    CASE t = "format_cells" -> FormatOpts
      [] t = "merge_cells" -> MergeOpts
      [] t = "add_data_validation" -> ValidationOpts
      [] t = "add_conditional_formatting" -> CondFormatOpts
      [] OTHER -> {NoOpts}

Pending == [kind |-> "pending", what |-> "", count |-> None]
Returned(what, count) == [kind |-> "returned", what |-> what, count |-> count]
Raised(what) == [kind |-> "raised", what |-> what, count |-> None]

----------------------------------------------------------------------------
(* The tools that take a range and dispatch one batchUpdate *)

\* a lookup that falls back to the first sheet when no title matches
RECURSIVE FindSheetId_first(_, _, _)
FindSheetId_first(sheetList, sheet_name, i) ==
    IF i > Len(sheetList)
    THEN IF Len(sheetList) = 0 THEN None ELSE Some(sheetList[1].sheetId)
    ELSE IF Some(sheetList[i].title) = sheet_name
         THEN Some(sheetList[i].sheetId)
         ELSE FindSheetId_first(sheetList, sheet_name, i + 1)

\* for sheet in spreadsheet.get("sheets", []):
\*     if sheet["properties"]["title"] == sheet_name: sheet_id = ...; break
RECURSIVE FindSheetId(_, _, _)
FindSheetId(sheetList, sheet_name, i) ==
    IF i > Len(sheetList) THEN None
    ELSE IF Some(sheetList[i].title) = sheet_name
         THEN Some(sheetList[i].sheetId)
         ELSE FindSheetId(sheetList, sheet_name, i + 1)

\* a descriptor whose column bounds are taken from the row bounds
GridRange_rows_twice(sheet_id, p) ==
    [sheetId |-> sheet_id, startRowIndex |-> p.start_row,
     endRowIndex |-> p.end_row, startColumnIndex |-> p.start_row,
     endColumnIndex |-> p.end_row]

\* the "range" object of every request
GridRange(sheet_id, p) ==
    [sheetId |-> sheet_id, startRowIndex |-> p.start_row,
     endRowIndex |-> p.end_row, startColumnIndex |-> p.start_col,
     endColumnIndex |-> p.end_col]

\* s.split(c)[-1]: the part of s after its last c, s itself if it has none
RECURSIVE AfterLast(_, _)
AfterLast(s, c) ==
    IF Len(s) = 0 THEN << >>
    ELSE IF s[Len(s)] = c THEN << >>
    ELSE Append(AfterLast(SubSeq(s, 1, Len(s) - 1), c), s[Len(s)])

\* add_data_validation: first_cell of the TEXT_LENGTH formula
FirstCell(rn) == AfterLast(AfterLast(rn, ChColon), ChBang)

NumberTypeMap(condition) ==
    CASE condition = "GREATER_THAN" -> "NUMBER_GREATER"
      [] condition = "GREATER_THAN_OR_EQUAL" -> "NUMBER_GREATER_THAN_EQ"
      [] condition = "LESS_THAN" -> "NUMBER_LESS"
      [] condition = "LESS_THAN_OR_EQUAL" -> "NUMBER_LESS_THAN_EQ"
      [] condition = "EQUAL" -> "NUMBER_EQ"
      [] condition = "NOT_EQUAL" -> "NUMBER_NOT_EQ"
      [] OTHER -> "NUMBER_GREATER"

DateTypeMap(condition) ==
    CASE condition = "GREATER_THAN" -> "DATE_AFTER"
      [] condition = "LESS_THAN" -> "DATE_BEFORE"
      [] condition = "EQUAL" -> "DATE_EQ"
      [] OTHER -> "DATE_AFTER"

\* validation_config.get("condition", default)
GetCondition(o, default) ==
    IF IsNone(o.condition) THEN default ELSE Val(o.condition)

\* The rule add_data_validation builds: [raised |-> the exception, if any,
\* condition |-> the type of rule["condition"], None when the rule has no
\* "condition" key]
ValidationRule(o) ==
    LET Ok(c) == [raised |-> None, condition |-> c]
        KeyError == [raised |-> Some("KeyError"), condition |-> None]
        vt == o.validation_type
    IN  CASE vt = "LIST" ->
               IF "values" \in o.keys THEN Ok(Some("ONE_OF_LIST"))
               ELSE IF "range" \in o.keys THEN Ok(Some("ONE_OF_RANGE"))
               ELSE Ok(None)
          [] vt = "NUMBER" ->
               LET condition == GetCondition(o, "GREATER_THAN")
               IN  IF condition = "BETWEEN"
                   THEN IF "values" \in o.keys THEN Ok(Some("NUMBER_BETWEEN"))
                        ELSE KeyError
                   ELSE IF condition = "NOT_BETWEEN"
                   THEN IF "values" \in o.keys
                        THEN Ok(Some("NUMBER_NOT_BETWEEN"))
                        ELSE KeyError
                   ELSE IF "value" \in o.keys
                        THEN Ok(Some(NumberTypeMap(condition)))
                        ELSE KeyError
          [] vt = "DATE" ->
               LET condition == GetCondition(o, "GREATER_THAN")
               IN  IF condition = "BETWEEN"
                   THEN IF "values" \in o.keys THEN Ok(Some("DATE_BETWEEN"))
                        ELSE KeyError
                   ELSE IF "value" \in o.keys
                        THEN Ok(Some(DateTypeMap(condition)))
                        ELSE KeyError
          [] vt = "TEXT_LENGTH" ->
               LET condition == GetCondition(o, "LESS_THAN")
               IN  IF condition = "BETWEEN" /\ "values" \notin o.keys
                   THEN KeyError
                   ELSE Ok(Some("CUSTOM_FORMULA"))
          [] vt = "CUSTOM" ->
               IF "formula" \in o.keys THEN Ok(Some("CUSTOM_FORMULA"))
               ELSE KeyError
          [] vt = "CHECKBOX" -> Ok(Some("BOOLEAN"))
          [] OTHER -> Ok(None)

\* The rule add_conditional_formatting builds: [raised, rule_kind]
CondFormatRule(o) ==
    CASE o.rule_type = "SINGLE_COLOR" ->
           [raised |-> None, rule_kind |-> "booleanRule"]
      [] o.rule_type = "COLOR_SCALE" ->
           [raised |-> None, rule_kind |-> "gradientRule"]
      [] o.rule_type = "DATA_BAR" ->
           [raised |-> None, rule_kind |-> "dataBarRule"]
      [] o.rule_type = "CUSTOM_FORMULA" ->
           IF "formula" \in o.keys
           THEN [raised |-> None, rule_kind |-> "booleanRule"]
           ELSE [raised |-> Some("KeyError"), rule_kind |-> ""]
      [] OTHER -> [raised |-> Some("UnboundLocalError"), rule_kind |-> ""]

\* What the tool does between the metadata response and its batchUpdate,
\* once sheet_id is resolved: [raised, returned, requests]
BuildRequests(t, o, rn, sheet_id, p) ==
    LET range == GridRange(sheet_id, p)
        Send(kind, detail) ==
            [raised |-> None, returned |-> None,
             requests |-> <<[kind |-> kind, range |-> range,
                             detail |-> detail]>>]
        Raise(e) == [raised |-> e, returned |-> None, requests |-> << >>]
    IN  CASE t = "format_cells" ->
               IF o.supplied # {}
               THEN Send("repeatCell",
                         [fields |-> "userEnteredFormat",
                          userEnteredFormat |-> o.supplied])
               ELSE [raised |-> None,
                     returned |-> Some("No formatting options provided"),
                     requests |-> << >>]
          [] t = "merge_cells" ->
               Send("mergeCells", [mergeType |-> o.merge_type])
          [] t = "unmerge_cells" -> Send("unmergeCells", NoOpts)
          [] t = "create_named_range" -> Send("addNamedRange", NoOpts)
          [] t = "add_data_validation" ->
               LET r == ValidationRule(o)
               IN  IF IsNone(r.raised)
                   THEN Send("setDataValidation",
                             [rule |-> Some([condition |-> r.condition,
                                             first_cell |->
                                                 IF o.validation_type
                                                      = "TEXT_LENGTH"
                                                 THEN FirstCell(rn)
                                                 ELSE << >>])])
                   ELSE Raise(r.raised)
          [] t = "clear_data_validation" ->
               Send("setDataValidation", [rule |-> None])
          [] t = "add_conditional_formatting" ->
               LET r == CondFormatRule(o)
               IN  IF IsNone(r.raised)
                   THEN Send("addConditionalFormatRule",
                             [rule_kind |-> r.rule_kind, index |-> 0])
                   ELSE Raise(r.raised)

\* (end_row_idx - start_row_idx) * (end_col_idx - start_col_idx); None when
\* the subtraction of None from None raises TypeError
CellCount(p) ==
    IF IsNone(p.start_row) THEN None
    ELSE Some((Val(p.end_row) - Val(p.start_row))
                * (Val(p.end_col) - Val(p.start_col)))

\* What the tool does after its batchUpdate has returned
Finish(t, o, p) ==
    CASE t \in {"format_cells", "add_data_validation",
                "add_conditional_formatting"} ->
           IF IsNone(CellCount(p)) THEN Raised("TypeError")
           ELSE Returned("Successfully", CellCount(p))
      [] t = "merge_cells" ->
           IF IsNone(CellCount(p)) THEN Raised("TypeError")
           ELSE Returned("Successfully",
                         IF o.merge_type = "MERGE_ALL" THEN CellCount(p)
                         ELSE None)
      [] OTHER -> Returned("Successfully", None)

InitTool ==
    /\ pc = "invoke"
    /\ tool \in RangeTools
    /\ range_name \in ToolRanges
    /\ opts \in OptsOf(tool)
    /\ sheets \in SheetLists
    /\ dispatched = << >>
    /\ outcome = Pending

\* entry of the tool up to its first await: parse range_name, request the
\* spreadsheet's sheet properties
Invoke ==
    /\ pc = "invoke"
    /\ parsed' = _parse_a1_to_indices(range_name)
    /\ pc' = "await_get"
    /\ UNCHANGED <<a1_range, coords, a1>>
    /\ UNCHANGED toolVars
    /\ UNCHANGED <<readVars, parVars>>

\* spreadsheets().get(...).execute raises
GetFails ==
    /\ pc = "await_get"
    /\ outcome' = Raised("HttpError")
    /\ pc' = "done"
    /\ UNCHANGED codecVars
    /\ UNCHANGED <<tool, range_name, opts, sheets, dispatched>>
    /\ UNCHANGED <<readVars, parVars>>

\* spreadsheets().get(...).execute returns: resolve sheet_id, build the
\* request and dispatch batchUpdate
GetReturns ==
    /\ pc = "await_get"
    /\ LET sheet_id == FindSheetId(sheets, parsed.sheet_name, 1)
       IN  IF IsNone(sheet_id)
           THEN /\ outcome' = Raised("SheetNotFound")
                /\ pc' = "done"
                /\ UNCHANGED dispatched
           ELSE LET b == BuildRequests(tool, opts, range_name, Val(sheet_id),
                                       parsed)
                IN  IF ~IsNone(b.raised)
                    THEN /\ outcome' = Raised(Val(b.raised))
                         /\ pc' = "done"
                         /\ UNCHANGED dispatched
                    ELSE IF ~IsNone(b.returned)
                    THEN /\ outcome' = Returned(Val(b.returned), None)
                         /\ pc' = "done"
                         /\ UNCHANGED dispatched
                    ELSE /\ dispatched' = Append(dispatched, b.requests)
                         /\ pc' = "await_batch"
                         /\ UNCHANGED outcome
    /\ UNCHANGED codecVars
    /\ UNCHANGED <<tool, range_name, opts, sheets>>
    /\ UNCHANGED <<readVars, parVars>>

\* batchUpdate(...).execute raises
BatchFails ==
    /\ pc = "await_batch"
    /\ outcome' = Raised("HttpError")
    /\ pc' = "done"
    /\ UNCHANGED codecVars
    /\ UNCHANGED <<tool, range_name, opts, sheets, dispatched>>
    /\ UNCHANGED <<readVars, parVars>>

\* batchUpdate(...).execute returns: build the message
BatchReturns ==
    /\ pc = "await_batch"
    /\ outcome' = Finish(tool, opts, parsed)
    /\ pc' = "done"
    /\ UNCHANGED codecVars
    /\ UNCHANGED <<tool, range_name, opts, sheets, dispatched>>
    /\ UNCHANGED <<readVars, parVars>>

----------------------------------------------------------------------------
(* read_sheet_values *)

MaxMergeCoord == 4
MaxValueRows == 3
MergeDisplayLimit == 10
DisplayLimit == 60

\* a merge as the service reports it, after merge.get(..., 0)
Merge(sr, er, sc, ec) ==
    [startRowIndex |-> sr, endRowIndex |-> er, startColumnIndex |-> sc,
     endColumnIndex |-> ec]

\* merged ranges span at least two cells
MergeRects ==
    {m \in [startRowIndex : 0 .. MaxMergeCoord, endRowIndex : 1 .. MaxMergeCoord,
            startColumnIndex : 0 .. MaxMergeCoord,
            endColumnIndex : 1 .. MaxMergeCoord] :
        /\ m.startRowIndex < m.endRowIndex
        /\ m.startColumnIndex < m.endColumnIndex
        /\ (m.endRowIndex - m.startRowIndex)
              * (m.endColumnIndex - m.startColumnIndex) >= 2}

\* the merges of one sheet never share a cell
Disjoint(m, n) ==
    \/ m.endRowIndex <= n.startRowIndex
    \/ n.endRowIndex <= m.startRowIndex
    \/ m.endColumnIndex <= n.startColumnIndex
    \/ n.endColumnIndex <= m.startColumnIndex

PairRects ==
    {Merge(0, 2, 0, 2), Merge(3, 4, 1, 3), Merge(1, 3, 3, 4),
     Merge(2, 3, 1, 3), Merge(0, 1, 1, 3)}

MergeLists ==
    {<< >>} \cup {<<m>> : m \in MergeRects}
        \cup {<<q[1], q[2]>> : q \in {r \in PairRects \X PairRects :
                                         Disjoint(r[1], r[2])}}

\* the sheets with their merges (fields "sheets.properties,sheets.merges"):
\* the merges of sheet "S" vary, sheet "T" has one
ReadSheetLists ==
    {[i \in 1 .. Len(l) |->
        [title |-> l[i], sheetId |-> SheetIdOf(l[i]),
         merges |-> IF l[i] = <<83>> THEN ms ELSE <<Merge(0, 2, 0, 2)>>]] :
        l \in {<< >>, <<<<83>>>>, <<<<83>>, <<84>>>>, <<<<84>>, <<83>>>>},
        ms \in MergeLists}

\* "S!B2:C3", "B2:C3", "B2", "T!A1:B2", "A:B", "S!C3:B2", "X!B2:C3"
ReadRanges ==
    {<<83, 33, 66, 50, 58, 67, 51>>, <<66, 50, 58, 67, 51>>, <<66, 50>>,
     <<84, 33, 65, 49, 58, 66, 50>>, <<65, 58, 66>>,
     <<83, 33, 67, 51, 58, 66, 50>>, <<88, 33, 66, 50, 58, 67, 51>>}

\* rows of cells: "v", "v" | "v", " " | "v"
HeaderRow == <<<<118>>, <<118>>>>
BlankSecondRow == <<<<118>>, <<32>>>>
OneCellRow == <<<<118>>>>

\* what values().get(...).execute() can return as "values": nothing, or a
\* first row followed by one-cell rows, up to MaxValueRows rows, or more
\* rows than are displayed
ValueLists ==
    {<< >>}
        \cup {[i \in 1 .. n |-> IF i = 1 THEN first ELSE OneCellRow] :
                n \in (1 .. MaxValueRows) \cup {DisplayLimit + 2},
                first \in {HeaderRow, BlankSecondRow, OneCellRow}}

ReadOpts == [handle_merged_cells : BOOLEAN, values : ValueLists]

\* a search that needs the title to equal the sheet name
RECURSIVE TargetSheet_titled(_, _, _)
TargetSheet_titled(sheetList, sheet_name, i) ==
    IF i > Len(sheetList) THEN 0
    ELSE IF Some(sheetList[i].title) = sheet_name
         THEN i
         ELSE TargetSheet_titled(sheetList, sheet_name, i + 1)

\* if sheet_name is None or sheet_props.get("title") == sheet_name: the
\* index of the first such sheet, 0 if there is none
RECURSIVE TargetSheet(_, _, _)
TargetSheet(sheetList, sheet_name, i) ==
    IF i > Len(sheetList) THEN 0
    ELSE IF IsNone(sheet_name) \/ Some(sheetList[i].title) = sheet_name
         THEN i
         ELSE TargetSheet(sheetList, sheet_name, i + 1)

\* a test that also counts merges that only touch the range
Overlaps_touching(p, m) ==
    /\ ~IsNone(p.start_row)
    /\ m.startRowIndex <= Val(p.end_row)
    /\ m.endRowIndex >= Val(p.start_row)
    /\ m.startColumnIndex <= Val(p.end_col)
    /\ m.endColumnIndex >= Val(p.start_col)

\* start_row_idx is not None and m_start_row < end_row_idx and ...
Overlaps(p, m) ==
    /\ ~IsNone(p.start_row)
    /\ m.startRowIndex < Val(p.end_row)
    /\ m.endRowIndex > Val(p.start_row)
    /\ m.startColumnIndex < Val(p.end_col)
    /\ m.endColumnIndex > Val(p.start_col)

Region(m) ==
    [start_row |-> m.startRowIndex, end_row |-> m.endRowIndex,
     start_col |-> m.startColumnIndex, end_col |-> m.endColumnIndex,
     a1 |-> _convert_indices_to_a1(m.startRowIndex, m.endRowIndex,
                                   m.startColumnIndex, m.endColumnIndex)]

\* for merge in merges: if overlaps: merged_regions.append({...})
RECURSIVE FilterMerges(_, _, _)
FilterMerges(merges, p, i) ==
    IF i > Len(merges) THEN << >>
    ELSE IF Overlaps(p, merges[i])
         THEN <<Region(merges[i])>> \o FilterMerges(merges, p, i + 1)
         ELSE FilterMerges(merges, p, i + 1)

\* the merged_regions the try block leaves when the metadata arrives
FindMergedRegions(sheetList, p) ==
    LET t == TargetSheet(sheetList, p.sheet_name, 1)
    IN  IF t = 0 THEN << >> ELSE FilterMerges(sheetList[t].merges, p, 1)

Whitespace == {9, 10, 11, 12, 13, 28, 29, 30, 31, 32}

\* cell and cell.strip()
NonBlank(cell) == \E k \in 1 .. Len(cell) : cell[k] \notin Whitespace

\* has_header
HasHeader(values) ==
    /\ Len(values) > 0
    /\ Len(values[1]) > 1
    /\ Cardinality({k \in 1 .. Len(values[1]) : NonBlank(values[1][k])}) >= 2

\* len(formatted_rows) when the data-row loop starts
LinesBeforeRows(values, regions) ==
    (IF Len(regions) > 0
     THEN 1 + (IF Len(regions) > MergeDisplayLimit THEN MergeDisplayLimit + 1
               ELSE Len(regions)) + 1
     ELSE 0)
        + (IF HasHeader(values) THEN 2 ELSE 0)

\* a row index that forgets that i counts from one
ActualRowIdx_from_zero(start_row_idx, i) == start_row_idx + i

\* actual_row_idx = start_row_idx + i - 1
ActualRowIdx(start_row_idx, i) == start_row_idx + i - 1

\* merge_annotations of the row labelled i
RECURSIVE Annotations(_, _, _, _)
Annotations(regions, p, i, k) ==
    IF Len(regions) = 0 \/ IsNone(p.start_row) \/ k > Len(regions) THEN << >>
    ELSE LET actual_row_idx == ActualRowIdx(Val(p.start_row), i)
             rest == Annotations(regions, p, i, k + 1)
         IN  IF regions[k].start_row <= actual_row_idx
                /\ actual_row_idx < regions[k].end_row
             THEN <<regions[k].a1>> \o rest
             ELSE rest

\* for i, row in enumerate(values[start_idx:], start_idx + 1): ... with the
\* break once more than DisplayLimit lines are formatted
RECURSIVE DataRows(_, _, _, _, _)
DataRows(values, regions, p, i, lines) ==
    IF i > Len(values) THEN << >>
    ELSE LET d == [i |-> i, annotations |-> Annotations(regions, p, i, 1)]
         IN  IF lines + 1 > DisplayLimit THEN <<d>>
             ELSE <<d>> \o DataRows(values, regions, p, i + 1, lines + 1)

FormatRows(values, regions, p) ==
    DataRows(values, regions, p, IF HasHeader(values) THEN 2 ELSE 1,
             LinesBeforeRows(values, regions))

InitRead ==
    /\ pc = "read_invoke"
    /\ tool = "read_sheet_values"
    /\ range_name \in ReadRanges
    /\ opts \in ReadOpts
    /\ sheets \in ReadSheetLists
    /\ dispatched = << >>
    /\ outcome = Pending

\* entry of read_sheet_values up to its first await: request the values
ReadInvoke ==
    /\ pc = "read_invoke"
    /\ pc' = "await_values"
    /\ UNCHANGED <<codecVars, toolVars, readVars, parVars>>

\* values().get(...).execute raises
ReadValuesFail ==
    /\ pc = "await_values"
    /\ outcome' = Raised("HttpError")
    /\ pc' = "done"
    /\ UNCHANGED <<tool, range_name, opts, sheets, dispatched>>
    /\ UNCHANGED <<codecVars, readVars, parVars>>

\* values().get(...).execute returns: nothing to show, or parse range_name
\* and either request the merges or format the rows at once
ReadValuesReturn ==
    /\ pc = "await_values"
    /\ IF Len(opts.values) = 0
       THEN /\ outcome' = Returned("No data found", None)
            /\ pc' = "done"
            /\ UNCHANGED <<parsed, displayed>>
       ELSE /\ parsed' = _parse_a1_to_indices(range_name)
            /\ IF opts.handle_merged_cells
               THEN /\ pc' = "await_meta"
                    /\ UNCHANGED <<outcome, displayed>>
               ELSE /\ displayed' = FormatRows(opts.values, << >>, parsed')
                    /\ outcome' = Returned("Successfully read",
                                           Some(Len(opts.values)))
                    /\ pc' = "done"
    /\ UNCHANGED <<a1_range, coords, a1>>
    /\ UNCHANGED <<tool, range_name, opts, sheets, dispatched>>
    /\ UNCHANGED <<merged_regions, log, parVars>>

\* a read that lets the failure of the metadata request through
ReadMetaFails_raises ==
    /\ pc = "await_meta"
    /\ log' = Append(log, "Could not fetch merge information")
    /\ outcome' = Raised("HttpError")
    /\ pc' = "done"
    /\ UNCHANGED <<tool, range_name, opts, sheets, dispatched>>
    /\ UNCHANGED <<codecVars, merged_regions, displayed, parVars>>

\* spreadsheets().get(...).execute raises: caught, a warning is logged
ReadMetaFails ==
    /\ pc = "await_meta"
    /\ log' = Append(log, "Could not fetch merge information")
    /\ displayed' = FormatRows(opts.values, << >>, parsed)
    /\ outcome' = Returned("Successfully read", Some(Len(opts.values)))
    /\ pc' = "done"
    /\ UNCHANGED <<tool, range_name, opts, sheets, dispatched>>
    /\ UNCHANGED <<codecVars, merged_regions, parVars>>

\* spreadsheets().get(...).execute returns: find the sheet, keep the merges
\* that overlap the range, format the rows
ReadMetaReturns ==
    /\ pc = "await_meta"
    /\ merged_regions' = FindMergedRegions(sheets, parsed)
    /\ displayed' = FormatRows(opts.values, merged_regions', parsed)
    /\ outcome' = Returned("Successfully read", Some(Len(opts.values)))
    /\ pc' = "done"
    /\ UNCHANGED <<tool, range_name, opts, sheets, dispatched>>
    /\ UNCHANGED <<codecVars, log, parVars>>

----------------------------------------------------------------------------
(* Concurrent invocations of the codec and of the overlap test *)

NProcs == 2

\* "S!A1:B2", "B2", "A:B", "T!C1:A4"
ParTexts ==
    {<<83, 33, 65, 49, 58, 66, 50>>, <<66, 50>>, <<65, 58, 66>>,
     <<84, 33, 67, 49, 58, 65, 52>>}

ParGrids ==
    {[start_row |-> 0, end_row |-> 2, start_col |-> 0, end_col |-> 2],
     [start_row |-> 1, end_row |-> 3, start_col |-> 25, end_col |-> 27],
     [start_row |-> 3, end_row |-> 4, start_col |-> 2, end_col |-> 3]}

ParOverlaps ==
    {[p |-> _parse_a1_to_indices(<<66, 50, 58, 67, 51>>), m |-> m] :
        m \in {Merge(0, 2, 0, 2), Merge(3, 4, 1, 3), Merge(2, 3, 1, 3)}}

ParCalls ==
    {[op |-> "decode", arg |-> t, stage |-> "start", result |-> None] :
        t \in ParTexts}
        \cup {[op |-> "encode", arg |-> g, stage |-> "start",
               result |-> None] : g \in ParGrids}
        \cup {[op |-> "overlap", arg |-> o, stage |-> "start",
               result |-> None] : o \in ParOverlaps}

\* the local variables of one invocation, before any is assigned
EmptyFrame ==
    [sheet_name |-> None, a1_range |-> << >>, match |-> None,
     start_col_letter |-> << >>, end_col_letter |-> << >>, merge |-> << >>]

\* every invocation storing its locals in the frame of the first
Scope_shared(i) == 1

\* the frame that holds the local variables of invocation i: a Python call
\* has its own
Scope(i) == i

Local(i) == frames[Scope(i)]

Step(i, stage, result, frame) ==
    /\ procs' = [procs EXCEPT ![i].stage = stage, ![i].result = result]
    /\ frames' = [frames EXCEPT ![Scope(i)] = frame]
    /\ UNCHANGED <<pc, codecVars, toolVars, readVars>>

InitPar ==
    /\ pc = "par"
    /\ procs \in [1 .. NProcs -> ParCalls]
    /\ frames = [i \in 1 .. NProcs |-> EmptyFrame]

\* if '!' in a1_range: sheet_name, a1_range = a1_range.split('!', 1)
ParSplit ==
    \E i \in 1 .. NProcs :
        /\ pc = "par"
        /\ procs[i].op = "decode" /\ procs[i].stage = "start"
        /\ LET sp == SplitSheet(procs[i].arg)
           IN  Step(i, "split", None,
                    [Local(i) EXCEPT !.sheet_name = sp.sheet_name,
                                     !.a1_range = sp.rest])

\* match = re.match(range pattern); if not match: match = re.match(cell
\* pattern)
ParMatch ==
    \E i \in 1 .. NProcs :
        /\ pc = "par"
        /\ procs[i].op = "decode" /\ procs[i].stage = "split"
        /\ LET match == MatchRange(Local(i).a1_range)
           IN  Step(i, "matched", None,
                    [Local(i) EXCEPT !.match =
                        IF IsNone(match) THEN MatchCell(Local(i).a1_range)
                        ELSE match])

\* the three returns of _parse_a1_to_indices
ParReturnParsed ==
    \E i \in 1 .. NProcs :
        /\ pc = "par"
        /\ procs[i].op = "decode" /\ procs[i].stage = "matched"
        /\ LET f == Local(i)
           IN  Step(i, "done",
                    Some(IF IsNone(f.match)
                         THEN Parsed(f.sheet_name, None, None, None, None)
                         ELSE IF Len(Val(f.match)) = 2
                         THEN CellResult(f.sheet_name, Val(f.match))
                         ELSE RangeResult(f.sheet_name, Val(f.match))),
                    f)

\* start_col_letter = col_to_letter(start_col)
ParStartLetter ==
    \E i \in 1 .. NProcs :
        /\ pc = "par"
        /\ procs[i].op = "encode" /\ procs[i].stage = "start"
        /\ Step(i, "first_letter", None,
                [Local(i) EXCEPT !.start_col_letter =
                    col_to_letter(procs[i].arg.start_col)])

\* end_col_letter = col_to_letter(end_col - 1)
ParEndLetter ==
    \E i \in 1 .. NProcs :
        /\ pc = "par"
        /\ procs[i].op = "encode" /\ procs[i].stage = "first_letter"
        /\ Step(i, "second_letter", None,
                [Local(i) EXCEPT !.end_col_letter =
                    col_to_letter(procs[i].arg.end_col - 1)])

\* return f"{start_col_letter}{start_row + 1}:{end_col_letter}{end_row}"
ParReturnA1 ==
    \E i \in 1 .. NProcs :
        /\ pc = "par"
        /\ procs[i].op = "encode" /\ procs[i].stage = "second_letter"
        /\ LET f == Local(i)
           IN  Step(i, "done",
                    Some(f.start_col_letter
                            \o StrNat(procs[i].arg.start_row + 1)
                            \o <<ChColon>> \o f.end_col_letter
                            \o StrNat(procs[i].arg.end_row)),
                    f)

\* m_start_row = merge.get("startRowIndex", 0), ...
ParReadMerge ==
    \E i \in 1 .. NProcs :
        /\ pc = "par"
        /\ procs[i].op = "overlap" /\ procs[i].stage = "start"
        /\ LET m == procs[i].arg.m
           IN  Step(i, "merge_read", None,
                    [Local(i) EXCEPT !.merge =
                        <<m.startRowIndex, m.endRowIndex, m.startColumnIndex,
                          m.endColumnIndex>>])

\* if (start_row_idx is not None and m_start_row < end_row_idx and ...)
ParTestOverlap ==
    \E i \in 1 .. NProcs :
        /\ pc = "par"
        /\ procs[i].op = "overlap" /\ procs[i].stage = "merge_read"
        /\ LET f == Local(i)
           IN  Step(i, "done",
                    Some(Overlaps(procs[i].arg.p,
                                  Merge(f.merge[1], f.merge[2], f.merge[3],
                                        f.merge[4]))),
                    f)

----------------------------------------------------------------------------
(* Concurrent add_conditional_formatting and clear_conditional_formatting
   on one spreadsheet *)

NCalls == 2
NPre == 3

\* the spreadsheet: sheet "S" with the rules 1, 2 or none, sheet "T" with
\* the rule 3; "added" counts the rules ever added to the sheet, and the
\* n-th rule added to a sheet is NPre + n
CfSheets ==
    {<<[title |-> <<83>>, sheetId |-> SheetIdOf(<<83>>),
        conditionalFormats |-> r, added |-> 0],
       [title |-> <<84>>, sheetId |-> SheetIdOf(<<84>>),
        conditionalFormats |-> <<3>>, added |-> 0]>> :
        r \in {<<1, 2>>, << >>}}

\* clear_conditional_formatting(sheet_name = None | "S" | "X" | ""), and
\* add_conditional_formatting with a range on "S" or on "T"
CfCalls ==
    {[op |-> "clear", arg |-> n, stage |-> "start", result |-> Pending] :
        n \in {None, Some(<<83>>), Some(<<88>>), Some(<< >>)}}
        \cup {[op |-> "add", arg |-> Some(n), stage |-> "start",
               result |-> Pending] : n \in {<<83>>, <<84>>}}

CfFrame(read, requests, rules_cleared) ==
    [read |-> read, requests |-> requests, rules_cleared |-> rules_cleared]

\* "deleteConditionalFormatRule": {"sheetId": sheet_id, "index": 0}
DeleteRule(sheet_id) ==
    [kind |-> "deleteConditionalFormatRule", sheetId |-> sheet_id, index |-> 0]

\* an add that asks for the second place
AddRule_second(sheet_id) ==
    [kind |-> "addConditionalFormatRule", sheetId |-> sheet_id, index |-> 1]

\* "addConditionalFormatRule": {"rule": rule, "index": 0}
AddRule(sheet_id) ==
    [kind |-> "addConditionalFormatRule", sheetId |-> sheet_id, index |-> 0]

\* a clear that deletes the rule at its own position in the list read
DeleteRequests_by_position(sheet_id, conditional_formats) ==
    [i \in 1 .. Len(conditional_formats) |->
        [kind |-> "deleteConditionalFormatRule", sheetId |-> sheet_id,
         index |-> i - 1]]

\* for i, rule in enumerate(conditional_formats): requests.append(...)
DeleteRequests(sheet_id, conditional_formats) ==
    [i \in 1 .. Len(conditional_formats) |-> DeleteRule(sheet_id)]

\* for sheet in spreadsheet.get("sheets", []): skip the sheets not targeted,
\* append one request per rule of the others
RECURSIVE ClearRequests(_, _, _)
ClearRequests(sheetList, sheet_name, k) ==
    IF k > Len(sheetList) THEN << >>
    ELSE IF /\ ~IsNone(sheet_name)
            /\ Len(Val(sheet_name)) > 0
            /\ sheetList[k].title # Val(sheet_name)
         THEN ClearRequests(sheetList, sheet_name, k + 1)
         ELSE DeleteRequests(sheetList[k].sheetId,
                             sheetList[k].conditionalFormats)
                  \o ClearRequests(sheetList, sheet_name, k + 1)

\* the service applying one request to the sheets: the rule at the index
\* is deleted, or a new rule is inserted at the index; ok is false when
\* there is no such sheet or no rule at the index
ApplyRequest(sheetList, req) ==
    LET hit == {k \in 1 .. Len(sheetList) : sheetList[k].sheetId = req.sheetId}
    IN  IF hit = {} THEN [ok |-> FALSE, sheets |-> sheetList]
        ELSE LET k == CHOOSE x \in hit : TRUE
                 rules == sheetList[k].conditionalFormats
             IN  IF req.kind = "deleteConditionalFormatRule"
                 THEN IF req.index >= Len(rules)
                      THEN [ok |-> FALSE, sheets |-> sheetList]
                      ELSE [ok |-> TRUE,
                            sheets |->
                              [sheetList EXCEPT ![k].conditionalFormats =
                                  SubSeq(rules, 1, req.index)
                                      \o SubSeq(rules, req.index + 2,
                                                Len(rules))]]
                 ELSE IF req.index > Len(rules)
                      THEN [ok |-> FALSE, sheets |-> sheetList]
                      ELSE [ok |-> TRUE,
                            sheets |->
                              [sheetList EXCEPT
                                  ![k].conditionalFormats =
                                      SubSeq(rules, 1, req.index)
                                          \o <<NPre + sheetList[k].added + 1>>
                                          \o SubSeq(rules, req.index + 1,
                                                    Len(rules)),
                                  ![k].added = sheetList[k].added + 1]]

\* the service applying the requests of one batchUpdate in order; a request
\* that is not valid fails the whole batch and nothing is applied
RECURSIVE ApplyBatch(_, _, _)
ApplyBatch(sheetList, requests, n) ==
    IF n > Len(requests) THEN [ok |-> TRUE, sheets |-> sheetList]
    ELSE LET one == ApplyRequest(sheetList, requests[n])
         IN  IF one.ok THEN ApplyBatch(one.sheets, requests, n + 1)
             ELSE one

CfStep(i, stage, result, frame) ==
    /\ procs' = [procs EXCEPT ![i].stage = stage, ![i].result = result]
    /\ frames' = [frames EXCEPT ![i] = frame]
    /\ UNCHANGED <<pc, codecVars, readVars, tool, range_name, opts, outcome>>

InitCf ==
    /\ pc = "cf"
    /\ tool = "conditional_formatting"
    /\ range_name = << >>
    /\ opts = NoOpts
    /\ sheets \in CfSheets
    /\ dispatched = << >>
    /\ outcome = Pending
    /\ procs \in [1 .. NCalls -> CfCalls]
    /\ frames = [i \in 1 .. NCalls |-> CfFrame(<< >>, << >>, 0)]

\* spreadsheets().get(...).execute raises in either tool
CfGetFails ==
    \E i \in 1 .. NCalls :
        /\ pc = "cf"
        /\ procs[i].stage = "start"
        /\ CfStep(i, "done", Raised("HttpError"), frames[i])
        /\ UNCHANGED <<sheets, dispatched>>

\* clear_conditional_formatting: the sheets arrive with their rules; build
\* the delete requests and dispatch them, or return when there is none
CfClearGetReturns ==
    \E i \in 1 .. NCalls :
        /\ pc = "cf"
        /\ procs[i].op = "clear" /\ procs[i].stage = "start"
        /\ LET requests == ClearRequests(sheets, procs[i].arg, 1)
               frame == CfFrame(sheets, requests, Len(requests))
           IN  IF Len(requests) = 0
               THEN /\ CfStep(i, "done",
                              Returned("No conditional formatting rules found",
                                       None), frame)
                    /\ UNCHANGED dispatched
               ELSE /\ CfStep(i, "await_batch", Pending, frame)
                    /\ dispatched' = Append(dispatched, requests)
        /\ UNCHANGED sheets

\* add_conditional_formatting: the sheet properties arrive; resolve the
\* sheet id and dispatch the addConditionalFormatRule request
CfAddGetReturns ==
    \E i \in 1 .. NCalls :
        /\ pc = "cf"
        /\ procs[i].op = "add" /\ procs[i].stage = "start"
        /\ LET sheet_id == FindSheetId(sheets, procs[i].arg, 1)
           IN  IF IsNone(sheet_id)
               THEN /\ CfStep(i, "done", Raised("SheetNotFound"),
                              CfFrame(sheets, << >>, 0))
                    /\ UNCHANGED dispatched
               ELSE /\ CfStep(i, "await_batch", Pending,
                              CfFrame(sheets, <<AddRule(Val(sheet_id))>>, 0))
                    /\ dispatched' = Append(dispatched,
                                            <<AddRule(Val(sheet_id))>>)
        /\ UNCHANGED sheets

\* batchUpdate(...).execute raises without the service applying anything
CfBatchFails ==
    \E i \in 1 .. NCalls :
        /\ pc = "cf"
        /\ procs[i].stage = "await_batch"
        /\ CfStep(i, "done", Raised("HttpError"), frames[i])
        /\ UNCHANGED <<sheets, dispatched>>

\* the service takes the batch of invocation i: applies it and the tool
\* returns its message, or rejects it and the tool raises
CfBatchApplied ==
    \E i \in 1 .. NCalls :
        /\ pc = "cf"
        /\ procs[i].stage = "await_batch"
        /\ LET applied == ApplyBatch(sheets, frames[i].requests, 1)
           IN  IF applied.ok
               THEN /\ sheets' = applied.sheets
                    /\ CfStep(i, "done",
                              Returned("Successfully",
                                       IF procs[i].op = "clear"
                                       THEN Some(frames[i].rules_cleared)
                                       ELSE None),
                              frames[i])
               ELSE /\ UNCHANGED sheets
                    /\ CfStep(i, "done", Raised("InvalidRequest"), frames[i])
        /\ UNCHANGED dispatched

----------------------------------------------------------------------------
(* modify_sheet_values *)

\* "S!A1:B2", "A1", "A:B"
ModifyRanges ==
    {<<83, 33, 65, 49, 58, 66, 50>>, <<65, 49>>, <<65, 58, 66>>}

\* values: None, [], [[]], [["v"]], [["v", "v"], ["v"]]
ModifyValues ==
    {None, Some(<< >>), Some(<<<< >>>>), Some(<<OneCellRow>>),
     Some(<<HeaderRow, OneCellRow>>)}

ModifyOpts ==
    [values : ModifyValues, clear_values : BOOLEAN,
     value_input_option : {"USER_ENTERED", "RAW"}]

\* not values
NoValues(values) == IsNone(values) \/ Len(Val(values)) = 0

\* a tool that writes the values whenever there are some
ModifyCall_values_first(rn, o) ==
    IF ~o.clear_values /\ NoValues(o.values)
    THEN [raised |-> Some("Exception"), requests |-> << >>]
    ELSE IF NoValues(o.values)
         THEN [raised |-> None,
               requests |-> <<[kind |-> "clear", range |-> rn,
                               values |-> None, valueInputOption |-> None]>>]
         ELSE [raised |-> None,
               requests |-> <<[kind |-> "update", range |-> rn,
                               values |-> o.values,
                               valueInputOption |->
                                   Some(o.value_input_option)]>>]

\* what modify_sheet_values does up to its await: raise, or call
\* values().clear, or call values().update
ModifyCall(rn, o) ==
    IF ~o.clear_values /\ NoValues(o.values)
    THEN [raised |-> Some("Exception"), requests |-> << >>]
    ELSE IF o.clear_values
         THEN [raised |-> None,
               requests |-> <<[kind |-> "clear", range |-> rn,
                               values |-> None, valueInputOption |-> None]>>]
         ELSE [raised |-> None,
               requests |-> <<[kind |-> "update", range |-> rn,
                               values |-> o.values,
                               valueInputOption |->
                                   Some(o.value_input_option)]>>]

InitModify ==
    /\ pc = "modify_invoke"
    /\ tool = "modify_sheet_values"
    /\ range_name \in ModifyRanges
    /\ opts \in ModifyOpts
    /\ sheets = << >>
    /\ dispatched = << >>
    /\ outcome = Pending

\* entry of modify_sheet_values up to its await
ModifyInvoke ==
    /\ pc = "modify_invoke"
    /\ LET c == ModifyCall(range_name, opts)
       IN  IF ~IsNone(c.raised)
           THEN /\ outcome' = Raised(Val(c.raised))
                /\ pc' = "done"
                /\ UNCHANGED dispatched
           ELSE /\ dispatched' = Append(dispatched, c.requests)
                /\ pc' = "await_call"
                /\ UNCHANGED outcome
    /\ UNCHANGED <<tool, range_name, opts, sheets>>
    /\ UNCHANGED <<codecVars, readVars, parVars>>

\* values().clear / values().update raises
ModifyCallFails ==
    /\ pc = "await_call"
    /\ outcome' = Raised("HttpError")
    /\ pc' = "done"
    /\ UNCHANGED <<tool, range_name, opts, sheets, dispatched>>
    /\ UNCHANGED <<codecVars, readVars, parVars>>

\* values().clear / values().update returns: build the message
ModifyCallReturns ==
    /\ pc = "await_call"
    /\ outcome' = Returned(IF opts.clear_values THEN "Successfully cleared"
                           ELSE "Successfully updated", None)
    /\ pc' = "done"
    /\ UNCHANGED <<tool, range_name, opts, sheets, dispatched>>
    /\ UNCHANGED <<codecVars, readVars, parVars>>

----------------------------------------------------------------------------
(* Specification *)

IdleCodec ==
    /\ a1_range = << >>
    /\ coords = NoGrid
    /\ parsed = NoParse
    /\ a1 = << >>

IdleTool ==
    /\ tool = "none"
    /\ range_name = << >>
    /\ opts = NoOpts
    /\ sheets = << >>
    /\ dispatched = << >>
    /\ outcome = Pending

IdleRead ==
    /\ merged_regions = << >>
    /\ displayed = << >>
    /\ log = << >>

IdlePar ==
    /\ procs = << >>
    /\ frames = << >>

Init ==
    \/ InitCodec /\ IdleTool /\ IdleRead /\ IdlePar
    \/ InitTool /\ IdleCodec /\ IdleRead /\ IdlePar
    \/ InitRead /\ IdleCodec /\ IdleRead /\ IdlePar
    \/ InitPar /\ IdleCodec /\ IdleTool /\ IdleRead
    \/ InitCf /\ IdleCodec /\ IdleRead
    \/ InitModify /\ IdleCodec /\ IdleRead /\ IdlePar

Next ==
    \/ Decode
    \/ Encode
    \/ DecodeEncoded
    \/ EncodeDecoded
    \/ Invoke
    \/ GetFails
    \/ GetReturns
    \/ BatchFails
    \/ BatchReturns
    \/ ReadInvoke
    \/ ReadValuesFail
    \/ ReadValuesReturn
    \/ ReadMetaFails
    \/ ReadMetaReturns
    \/ ParSplit
    \/ ParMatch
    \/ ParReturnParsed
    \/ ParStartLetter
    \/ ParEndLetter
    \/ ParReturnA1
    \/ ParReadMerge
    \/ ParTestOverlap
    \/ CfGetFails
    \/ CfClearGetReturns
    \/ CfAddGetReturns
    \/ CfBatchFails
    \/ CfBatchApplied
    \/ ModifyInvoke
    \/ ModifyCallFails
    \/ ModifyCallReturns

Spec == Init /\ [][Next]_vars

----------------------------------------------------------------------------
(* Vocabulary of the properties *)

\* the four bounds a parse returned
Bounds(p) == <<p.start_row, p.end_row, p.start_col, p.end_col>>

Decodable(p) == ~IsNone(p.start_row)

StartsWith(s, h) == Len(h) <= Len(s) /\ SubSeq(s, 1, Len(h)) = h

\* prefixes whose sheet name has no '!' in it
PlainPrefixes ==
    {<< >>} \cup {Append(n, ChBang) : n \in {m \in SheetNames :
                                               FindFirst(m, ChBang, 1) = 0}}

\* the sheet name a prefix stands for
NameOfPrefix(p) == IF p = << >> THEN None ELSE Some(SubSeq(p, 1, Len(p) - 1))

\* the number a row token denotes
RowNumber(r) ==
    CASE r = <<49>> -> 1
      [] r = <<50>> -> 2
      [] r = <<52>> -> 4
      [] r = <<49, 48>> -> 10
      [] r = <<48>> -> 0

\* value of a letter string as a positional base-26 numeral with A = 0,
\* most significant letter first: sum of letter_i * 26^(n-1-i)
RECURSIVE PositionalValue(_, _)
PositionalValue(letters, i) ==
    IF i > Len(letters) THEN 0
    ELSE (letters[i] - 65) * Pow(26, Len(letters) - i)
            + PositionalValue(letters, i + 1)

\* name of the zero-based column k in spreadsheet order A..Z, AA..AZ, BA..
RECURSIVE SpreadsheetColumn(_)
SpreadsheetColumn(k) ==
    IF k < 26 THEN <<65 + k>>
    ELSE Append(SpreadsheetColumn((k \div 26) - 1), 65 + (k % 26))

AllIn(s, lo, hi) == Len(s) >= 1 /\ \A i \in 1 .. Len(s) : s[i] \in lo .. hi

\* s is exactly <COL><ROW>
ExactCell(s) ==
    \E i \in 1 .. Len(s) :
        AllIn(SubSeq(s, 1, i), 65, 90) /\ AllIn(SubSeq(s, i + 1, Len(s)), 48, 57)

\* s is exactly <COL><ROW> or <COL><ROW>:<COL><ROW>
ExactSpan(s) ==
    \/ ExactCell(s)
    \/ \E k \in 1 .. Len(s) :
          /\ s[k] = 58
          /\ ExactCell(SubSeq(s, 1, k - 1))
          /\ ExactCell(SubSeq(s, k + 1, Len(s)))

\* s with its letters a-z in upper case
Upper(s) ==
    [i \in 1 .. Len(s) |-> IF s[i] \in 97 .. 122 THEN s[i] - 32 ELSE s[i]]

\* one-based number of the column named by letters, in spreadsheet order:
\* A = 1, ..., Z = 26, AA = 27, ...
RECURSIVE ColumnNumber(_)
ColumnNumber(letters) ==
    IF Len(letters) = 0 THEN 0
    ELSE 26 * ColumnNumber(SubSeq(letters, 1, Len(letters) - 1))
            + (letters[Len(letters)] - 64)

\* a read that got its values and the sheets with their merges
MergesRead ==
    /\ tool = "read_sheet_values"
    /\ pc = "done"
    /\ outcome = Returned("Successfully read", Some(Len(opts.values)))
    /\ opts.handle_merged_cells
    /\ log = << >>

\* the rectangles R (bounds of p) and m overlap as half-open rectangles
HalfOpenOverlap(p, m) ==
    /\ m.startRowIndex < Val(p.end_row)
    /\ m.endRowIndex > Val(p.start_row)
    /\ m.startColumnIndex < Val(p.end_col)
    /\ m.endColumnIndex > Val(p.start_col)

\* the reported regions as rectangles
ReportedRects ==
    {Merge(g.start_row, g.end_row, g.start_col, g.end_col) :
        g \in {merged_regions[j] : j \in 1 .. Len(merged_regions)}}

\* the merges of the sheet titled as the range says, of the first sheet
\* when the range names none
MergesOfTarget(p) ==
    IF IsNone(p.sheet_name)
    THEN IF Len(sheets) = 0 THEN {}
         ELSE {sheets[1].merges[k] : k \in 1 .. Len(sheets[1].merges)}
    ELSE UNION {{sheets[i].merges[k] : k \in 1 .. Len(sheets[i].merges)} :
                  i \in {q \in 1 .. Len(sheets) :
                           Some(sheets[q].title) = p.sheet_name}}

\* the sheets of sheetList a clear of sheet_name is about: the sheet of
\* that title, every sheet when no name (None or "") is given
Targeted(sheetList, sheet_name) ==
    {k \in 1 .. Len(sheetList) :
        \/ IsNone(sheet_name)
        \/ sheet_name = Some(<< >>)
        \/ Some(sheetList[k].title) = sheet_name}

RulesOf(sheetList, k) ==
    {sheetList[k].conditionalFormats[j] :
        j \in 1 .. Len(sheetList[k].conditionalFormats)}

RECURSIVE SumOver(_, _)
SumOver(f, S) ==
    IF S = {} THEN 0
    ELSE LET x == CHOOSE y \in S : TRUE IN f[x] + SumOver(f, S \ {x})

\* the formatting arguments of format_cells
FormatArguments ==
    {"background_color", "text_format", "horizontal_alignment",
     "vertical_alignment", "borders", "number_format"}

\* the formatting attributes a repeatCell field mask covers: the mask
\* "userEnteredFormat" covers the whole format of the cell
Covered(fields) ==
    IF fields = "userEnteredFormat" THEN FormatArguments ELSE {}

\* the text of s after its first '!', all of s when it has none
Unqualified(s) == SubSeq(s, FindFirst(s, ChBang, 1) + 1, Len(s))

\* the text of s before its first ':', all of s when it has none
FirstCorner(s) ==
    IF FindFirst(s, ChColon, 1) = 0 THEN s
    ELSE SubSeq(s, 1, FindFirst(s, ChColon, 1) - 1)

----------------------------------------------------------------------------
(* Properties *)

\* C1: decoding the text that encoding g produced returns g's four bounds,
\* for every g with 0 <= startCol < endCol < 18278, 0 <= startRow < endRow.
C1_RoundTrip ==
    pc = "round_trip" =>
        Bounds(parsed) = <<Some(coords.start_row), Some(coords.end_row),
                           Some(coords.start_col), Some(coords.end_col)>>

\* C2: the k-th column name in spreadsheet order (A, ..., Z, AA, ..., AZ,
\* BA, ...) decodes to the zero-based index k - 1.
C2_SpreadsheetOrder ==
    pc = "decoded" =>
        \A k \in {0, 1, 2, 25, 26, 51, 52} : \A r \in RowTokens :
            a1_range = SpreadsheetColumn(k) \o r => parsed.start_col = Some(k)

\* C3: the column index decoded from a letter string is its value as a
\* positional base-26 numeral (A = 0, most significant letter first), in
\* the single-cell form and for both corners of the rectangle form.
C3_PositionalBase26 ==
    pc = "decoded" =>
        \A p \in PlainPrefixes : \A c1 \in ColTokens : \A r1 \in RowTokens :
            /\ a1_range = p \o c1 \o r1 =>
                  /\ parsed.start_col = Some(PositionalValue(c1, 1))
                  /\ parsed.end_col = Some(PositionalValue(c1, 1) + 1)
            /\ StartsWith(a1_range, p \o c1 \o r1 \o <<58>>) =>
                  \A c2 \in ColTokens : \A r2 \in RowTokens :
                      a1_range = p \o c1 \o r1 \o <<58>> \o c2 \o r2 =>
                          /\ parsed.start_col = Some(PositionalValue(c1, 1))
                          /\ parsed.end_col
                                = Some(PositionalValue(c2, 1) + 1)

\* "S!AZ1:BA2" has been decoded to columns 25 .. 27
C3_Witness ==
    /\ pc = "decoded"
    /\ a1_range = <<83, 33, 65, 90, 49, 58, 66, 65, 50>>
    /\ parsed.start_col = Some(25)
    /\ parsed.end_col = Some(27)

\* C4: a text [Sheet!]<COL1><ROW1>:<COL2><ROW2> decodes to the sheet name
\* (if any), startRow = ROW1 - 1, endRow = ROW2, startCol = index(COL1),
\* endCol = index(COL2) + 1.
C4_RectangleParse ==
    pc = "decoded" =>
        \A p \in PlainPrefixes : \A c1 \in ColTokens :
          \A r1 \in RowTokens \cup ZeroRowTokens :
            StartsWith(a1_range, p \o c1 \o r1 \o <<58>>) =>
                \A c2 \in ColTokens : \A r2 \in RowTokens \cup ZeroRowTokens :
                    a1_range = p \o c1 \o r1 \o <<58>> \o c2 \o r2 =>
                        parsed = Parsed(NameOfPrefix(p),
                                        Some(RowNumber(r1) - 1),
                                        Some(RowNumber(r2)),
                                        Some(PositionalValue(c1, 1)),
                                        Some(PositionalValue(c2, 1) + 1))

\* "Sheet1!A1:C4" has been decoded to sheet "Sheet1", rows 0..4, columns 0..3
C4_Witness ==
    /\ pc = "decoded"
    /\ a1_range = <<83, 104, 101, 101, 116, 49, 33, 65, 49, 58, 67, 52>>
    /\ parsed = Parsed(Some(<<83, 104, 101, 101, 116, 49>>), Some(0), Some(4),
                       Some(0), Some(3))

\* C5: a text <COL><ROW> with no colon decodes to the 1x1 rectangle
\* startRow = ROW - 1, endRow = ROW, startCol = index(COL),
\* endCol = index(COL) + 1.
C5_SingleCellParse ==
    pc = "decoded" =>
        \A p \in PlainPrefixes : \A c \in ColTokens :
          \A r \in RowTokens \cup ZeroRowTokens :
            a1_range = p \o c \o r =>
                parsed = Parsed(NameOfPrefix(p), Some(RowNumber(r) - 1),
                                Some(RowNumber(r)),
                                Some(PositionalValue(c, 1)),
                                Some(PositionalValue(c, 1) + 1))

\* "B2" has been decoded to rows 1..2, columns 1..2
C5_Witness ==
    /\ pc = "decoded"
    /\ a1_range = <<66, 50>>
    /\ parsed = Parsed(None, Some(1), Some(2), Some(1), Some(2))

\* C6: with a '!' in the text, the sheet name is the part before the last
\* '!' and only the part after it is parsed as the span; with no '!', the
\* sheet name is absent.
C6_SheetNameBeforeLastBang ==
    pc = "decoded" =>
        /\ FindFirst(a1_range, 33, 1) = 0 => IsNone(parsed.sheet_name)
        /\ \A n \in SheetNames :
              StartsWith(a1_range, Append(n, 33)) =>
                  \A s \in Cells \cup TwoCorner :
                      a1_range = Append(n, 33) \o s =>
                          /\ parsed.sheet_name = Some(n)
                          /\ Bounds(parsed) = Bounds(_parse_a1_to_indices(s))

\* C7: the empty string, "1A" and every <COL>0 are rejected: decoding them
\* yields no coordinates.
C7_MalformedRejected ==
    (/\ pc = "decoded"
     /\ \/ a1_range = << >>
        \/ a1_range = <<49, 65>>
        \/ \E c \in ColTokens : \E z \in ZeroRowTokens : a1_range = c \o z)
        => ~Decodable(parsed)

\* C8: decoding yields coordinates only when the whole span is exactly
\* <COL><ROW> or <COL><ROW>:<COL><ROW>.
C8_WholeSpanOnly ==
    (pc = "decoded" /\ Decodable(parsed))
        => ExactSpan(AfterLast(a1_range, 33))

\* C9: when range_name cannot be decoded, the tool dispatches no
\* batchUpdate, whether or not the sheet name resolves.
C9_NoDispatchWhenUndecodable ==
    (tool \in RangeTools /\ ~Decodable(_parse_a1_to_indices(range_name)))
        => dispatched = << >>

\* C10: when the range carries an explicit sheet name that equals no sheet
\* title the service returned, the tool raises sheet-not-found and
\* dispatches no batchUpdate.
C10_SheetNotFound ==
    (/\ tool \in RangeTools
     /\ pc # "invoke"
     /\ ~IsNone(parsed.sheet_name)
     /\ \A i \in 1 .. Len(sheets) : sheets[i].title # Val(parsed.sheet_name))
        => /\ dispatched = << >>
           /\ pc # "await_batch"
           /\ (pc = "done" /\ outcome # Raised("HttpError"))
                 => outcome = Raised("SheetNotFound")

\* "X!A1" against a spreadsheet that has sheets, none titled "X": raised
C10_Witness ==
    /\ pc = "done"
    /\ range_name = <<88, 33, 65, 49>>
    /\ Len(sheets) = MaxSheets
    /\ outcome = Raised("SheetNotFound")
    /\ dispatched = << >>

\* C13: in every request the tools dispatch, the range descriptor carries
\* the id of the sheet whose title is the decoded sheet name, and the four
\* decoded bounds unmodified.
C13_RangeDescriptor ==
    tool \in RangeTools =>
        \A b \in 1 .. Len(dispatched) : \A r \in 1 .. Len(dispatched[b]) :
            LET range == dispatched[b][r].range
                p == _parse_a1_to_indices(range_name)
            IN  /\ \E i \in 1 .. Len(sheets) :
                      /\ Some(sheets[i].title) = p.sheet_name
                      /\ range.sheetId = sheets[i].sheetId
                /\ <<range.startRowIndex, range.endRowIndex,
                     range.startColumnIndex, range.endColumnIndex>> = Bounds(p)

\* create_named_range("T!A1:B2") on sheets S, T has dispatched sheetId 1,
\* rows 0..2, columns 0..2
C13_Witness ==
    /\ tool = "create_named_range"
    /\ range_name = <<84, 33, 65, 49, 58, 66, 50>>
    /\ Len(sheets) = 2
    /\ sheets[2].title = <<84>>
    /\ Len(dispatched) = 1
    /\ dispatched[1][1].range
          = [sheetId |-> 1, startRowIndex |-> Some(0), endRowIndex |-> Some(2),
             startColumnIndex |-> Some(0), endColumnIndex |-> Some(2)]

\* C14: the cell count a tool reports is (endRow - startRow) * (endCol -
\* startCol) of the decoded range, and for every range text the decoder
\* accepts it is non-negative (rows 0..5, columns 0..3 give 15).
C14_CellCount ==
    (/\ tool \in RangeTools
     /\ pc = "done"
     /\ outcome.kind = "returned"
     /\ ~IsNone(outcome.count))
        => LET p == _parse_a1_to_indices(range_name)
           IN  /\ Val(outcome.count)
                    = (Val(p.end_row) - Val(p.start_row))
                        * (Val(p.end_col) - Val(p.start_col))
               /\ Val(outcome.count) >= 0
               /\ range_name = <<83, 33, 65, 49, 58, 67, 53>>
                    => Val(outcome.count) = 15

\* C11: with merged-cell handling on and a decodable range R, the regions
\* read_sheet_values reports are exactly the merges m of the target sheet
\* with m.startRow < R.endRow, m.endRow > R.startRow, m.startCol < R.endCol
\* and m.endCol > R.startCol; a merge that only touches R is not reported.
C11_OverlapFilter ==
    (MergesRead /\ Decodable(parsed))
        => ReportedRects = {m \in MergesOfTarget(parsed) :
                               HalfOpenOverlap(parsed, m)}

\* "S!B2:C3" with a merge over A1:B2 and a merge below row 3: only the
\* first is reported
C11_Witness ==
    /\ MergesRead
    /\ range_name = <<83, 33, 66, 50, 58, 67, 51>>
    /\ Len(sheets) = 1
    /\ sheets[1].merges = <<Merge(0, 2, 0, 2), Merge(3, 4, 1, 3)>>
    /\ Len(merged_regions) = 1
    /\ merged_regions[1].a1 = <<65, 49, 58, 66, 50>>

\* C12: the k-th displayed data row stands at position k - 1 in the values,
\* one further when a header row was skipped; with r the start row of the
\* range plus that position, it is annotated with a reported merge m iff
\* m.startRow <= r < m.endRow.
C12_RowAnnotation ==
    (MergesRead /\ Decodable(parsed))
        => \A k \in 1 .. Len(displayed) :
               \A j \in 1 .. Len(merged_regions) :
                   LET position == k - 1 + (IF HasHeader(opts.values) THEN 1
                                            ELSE 0)
                       r == Val(parsed.start_row) + position
                       m == merged_regions[j]
                       ann == displayed[k].annotations
                   IN  (\E x \in 1 .. Len(ann) : ann[x] = m.a1)
                           <=> (m.start_row <= r /\ r < m.end_row)

\* "S!B2:C3", header skipped, a merge over row index 2 only: the first
\* displayed row (index 2) is annotated, the second (index 3) is not
C12_Witness ==
    /\ MergesRead
    /\ range_name = <<83, 33, 66, 50, 58, 67, 51>>
    /\ HasHeader(opts.values)
    /\ Len(sheets) = 1
    /\ sheets[1].merges = <<Merge(2, 3, 1, 3)>>
    /\ Len(displayed) = 2
    /\ displayed[1].annotations = <<<<66, 51, 58, 67, 51>>>>
    /\ displayed[2].annotations = << >>

\* C20: for a range text without '!', read_sheet_values reports the
\* overlapping merges of the first sheet the service returned, and each of
\* the seven range tools ends with sheet-not-found (or with the failure of
\* its metadata request) and has dispatched no batchUpdate.
C20_UnqualifiedRange ==
    (pc = "done" /\ FindFirst(range_name, ChBang, 1) = 0)
        => /\ (MergesRead /\ Decodable(parsed) /\ Len(sheets) > 0)
                 => ReportedRects
                        = {sheets[1].merges[k] :
                             k \in {x \in 1 .. Len(sheets[1].merges) :
                                      HalfOpenOverlap(parsed,
                                                      sheets[1].merges[x])}}
           /\ tool \in RangeTools
                 => /\ dispatched = << >>
                    /\ outcome \in {Raised("SheetNotFound"),
                                    Raised("HttpError")}

\* "B2:C3" read from the sheets T, S: the merge of T is reported
C20_Witness ==
    /\ MergesRead
    /\ range_name = <<66, 50, 58, 67, 51>>
    /\ Len(sheets) = 2
    /\ sheets[1].title = <<84>>
    /\ sheets[2].merges = <<Merge(2, 3, 1, 3)>>
    /\ Len(merged_regions) = 1
    /\ merged_regions[1].a1 = <<65, 49, 58, 66, 50>>

\* C15: the coordinates decode returns for a text it accepts are
\* non-negative, with end_row > start_row and end_col > start_col.
C15_WellFormedCoordinates ==
    (pc = "decoded" /\ Decodable(parsed))
        => /\ Val(parsed.start_row) >= 0
           /\ Val(parsed.start_col) >= 0
           /\ Val(parsed.end_row) > Val(parsed.start_row)
           /\ Val(parsed.end_col) > Val(parsed.start_col)

\* C16: for columns below 18278, encode returns the spreadsheet name of
\* start_col, start_row + 1, ":", the spreadsheet name of end_col - 1 and
\* end_row, the names made of the letters A-Z only.
C16_EncodeFormat ==
    (pc = "encoded" /\ coords.start_col < 18278 /\ coords.end_col - 1 < 18278)
        => /\ a1 = SpreadsheetColumn(coords.start_col)
                      \o StrNat(coords.start_row + 1) \o <<ChColon>>
                      \o SpreadsheetColumn(coords.end_col - 1)
                      \o StrNat(coords.end_row)
           /\ \A i \in 1 .. Len(a1) :
                 a1[i] \in (65 .. 90) \cup (48 .. 57) \cup {ChColon}

\* C17: a text <COL><ROW>:<COL><ROW> with upper-case columns, rows >= 1 and
\* the first corner not after the second, decoded and encoded again, names
\* the same two corners, up to letter case.
C17_TextRoundTrip ==
    pc = "re_encoded"
        => \A c1 \in ColTokens, c2 \in ColTokens, r1 \in RowTokens,
              r2 \in RowTokens, pre \in PlainPrefixes :
               (/\ a1_range = pre \o c1 \o r1 \o <<ChColon>> \o c2 \o r2
                /\ ColumnNumber(c1) <= ColumnNumber(c2)
                /\ RowNumber(r1) <= RowNumber(r2))
                   => Upper(a1) = c1 \o StrNat(RowNumber(r1)) \o <<ChColon>>
                                     \o c2 \o StrNat(RowNumber(r2))

\* C18: a text whose upper-case form is <COL><ROW> or <COL><ROW>:<COL><ROW>
\* decodes to the coordinates its upper-case form decodes to.
C18_CaseInsensitiveColumns ==
    (pc = "decoded" /\ ExactSpan(Upper(a1_range)))
        => Bounds(parsed) = Bounds(_parse_a1_to_indices(Upper(a1_range)))

\* C19: whatever the interleaving of the steps of concurrent invocations of
\* decode, encode and the overlap test, an invocation that has returned has
\* returned what the same call returns when it runs alone.
C19_IndependentInvocations ==
    \A i \in 1 .. Len(procs) :
        (pc = "par" /\ procs[i].stage = "done")
            => procs[i].result
                 = Some(CASE procs[i].op = "decode" ->
                               _parse_a1_to_indices(procs[i].arg)
                          [] procs[i].op = "encode" ->
                               _convert_indices_to_a1(procs[i].arg.start_row,
                                                      procs[i].arg.end_row,
                                                      procs[i].arg.start_col,
                                                      procs[i].arg.end_col)
                          [] procs[i].op = "overlap" ->
                               Overlaps(procs[i].arg.p, procs[i].arg.m))

\* decode("S!A1:B2") has returned while decode("T!C1:A4") is between its
\* match and its return
C19_Witness ==
    /\ pc = "par"
    /\ procs[1].op = "decode" /\ procs[1].arg = <<83, 33, 65, 49, 58, 66, 50>>
    /\ procs[1].stage = "done"
    /\ procs[1].result = Some(Parsed(Some(<<83>>), Some(0), Some(2), Some(0),
                                     Some(2)))
    /\ procs[2].op = "decode"
    /\ procs[2].arg = <<84, 33, 67, 49, 58, 65, 52>>
    /\ procs[2].stage = "matched"
    /\ frames[2].sheet_name = Some(<<84>>)

\* C21: in format_cells, merge_cells, add_data_validation and
\* add_conditional_formatting, the step that follows a batchUpdate that was
\* dispatched and succeeded ends the invocation with its success message,
\* whatever the range text.
C21_SuccessAfterDispatch ==
    [][(/\ tool \in {"format_cells", "merge_cells", "add_data_validation",
                     "add_conditional_formatting"}
        /\ pc = "await_batch"
        /\ pc' = "done"
        /\ outcome' # Raised("HttpError"))
           => /\ outcome'.kind = "returned"
              /\ outcome'.what = "Successfully"]_vars

\* C22: a clear that has read the sheets has built, for each targeted sheet
\* of what it read, as many deletes at index 0 as the sheet has rules and
\* none for the other sheets; applied in order to the sheets read, the batch
\* is valid, empties the targeted sheets and leaves the others as they
\* were; the count it reports is the number of those rules; and it
\* dispatches a batch only when there is a request in it.
C22_ClearBatch ==
    pc = "cf"
        => /\ \A b \in 1 .. Len(dispatched) : Len(dispatched[b]) > 0
           /\ \A i \in 1 .. Len(procs) :
                 (procs[i].op = "clear" /\ Len(frames[i].read) > 0)
                     => LET read == frames[i].read
                            requests == frames[i].requests
                            targets == Targeted(read, procs[i].arg)
                            after == ApplyBatch(read, requests, 1)
                            count == SumOver([k \in 1 .. Len(read) |->
                                                Len(read[k].conditionalFormats)],
                                             targets)
                        IN  /\ \A k \in 1 .. Len(read) :
                                  Cardinality({n \in 1 .. Len(requests) :
                                      requests[n] = DeleteRule(read[k].sheetId)})
                                    = IF k \in targets
                                      THEN Len(read[k].conditionalFormats)
                                      ELSE 0
                            /\ Len(requests) = count
                            /\ after.ok
                            /\ \A k \in 1 .. Len(read) :
                                  after.sheets[k].conditionalFormats
                                    = IF k \in targets THEN << >>
                                      ELSE read[k].conditionalFormats
                            /\ procs[i].stage = "await_batch" => count > 0
                            /\ procs[i].result.kind = "returned"
                                  => procs[i].result
                                       = IF count = 0
                                         THEN Returned("No conditional formatting rules found",
                                                       None)
                                         ELSE Returned("Successfully",
                                                       Some(count))

\* a clear of every sheet has removed the three rules it read
C22_Witness ==
    /\ pc = "cf"
    /\ procs[1].op = "clear" /\ procs[1].arg = None
    /\ procs[1].result = Returned("Successfully", Some(3))
    /\ Len(frames[1].requests) = 3
    /\ \A k \in 1 .. Len(sheets) : sheets[k].conditionalFormats = << >>
    /\ procs[2].op = "clear" /\ procs[2].arg = Some(<<88>>)
    /\ procs[2].result.kind = "returned"

\* C23: when the service takes the batch of a clear, whatever other
\* invocations did since the clear read the sheets, the batch is valid
\* (every delete at index 0 finds a rule) and afterwards no rule the clear
\* read on a targeted sheet is left on that sheet.
C23_ClearUnderInterleaving ==
    [][\A i \in 1 .. Len(procs) :
          (/\ pc = "cf"
           /\ procs[i].op = "clear"
           /\ procs[i].stage = "await_batch"
           /\ procs'[i].stage = "done"
           /\ procs'[i].result # Raised("HttpError"))
              => /\ procs'[i].result.kind = "returned"
                 /\ \A k \in Targeted(frames[i].read, procs[i].arg) :
                       RulesOf(frames[i].read, k) \cap RulesOf(sheets', k) = {}]_vars

\* C24: when every invocation is an add, each sheet holds the rules added
\* to it, the last added first, and after them the rules it had before, in
\* their order.
C24_NewestFirst ==
    (pc = "cf" /\ \A i \in 1 .. Len(procs) : procs[i].op = "add")
        => \A k \in 1 .. Len(sheets) :
               LET rules == sheets[k].conditionalFormats
                   n == sheets[k].added
               IN  /\ Len(rules) >= n
                   /\ \A j \in 1 .. Len(rules) :
                         IF j <= n THEN rules[j] = NPre + n - j + 1
                         ELSE rules[j] <= NPre
                   /\ \A j \in 1 .. Len(rules) - 1 :
                         j > n => rules[j] < rules[j + 1]

\* two adds on "S", which had the rules 1, 2: the second added is first
C24_Witness ==
    /\ pc = "cf"
    /\ \A i \in 1 .. Len(procs) :
          procs[i].op = "add" /\ procs[i].result = Returned("Successfully", None)
    /\ sheets[1].conditionalFormats = <<NPre + 2, NPre + 1, 1, 2>>

\* C25: once modify_sheet_values has run to its await or to its end: with
\* clear_values false and values absent or empty it has raised and called
\* nothing; otherwise it has made one call, a clear of range_name without
\* values when clear_values is true, an update of range_name with the
\* values otherwise.
C25_ModifyDispatch ==
    (tool = "modify_sheet_values" /\ pc # "modify_invoke")
        => IF ~opts.clear_values
              /\ (IsNone(opts.values) \/ opts.values = Some(<< >>))
           THEN outcome = Raised("Exception") /\ dispatched = << >>
           ELSE /\ Len(dispatched) = 1
                /\ Len(dispatched[1]) = 1
                /\ dispatched[1][1].range = range_name
                /\ IF opts.clear_values
                   THEN /\ dispatched[1][1].kind = "clear"
                        /\ dispatched[1][1].values = None
                   ELSE /\ dispatched[1][1].kind = "update"
                        /\ dispatched[1][1].values = opts.values

\* clear_values true with values supplied: the range is cleared and the
\* values are not sent
C25_Witness ==
    /\ tool = "modify_sheet_values"
    /\ pc = "done"
    /\ opts.clear_values
    /\ opts.values = Some(<<OneCellRow>>)
    /\ outcome = Returned("Successfully cleared", None)
    /\ dispatched[1][1].kind = "clear"

\* C26: read_sheet_values waits for the sheet metadata only when merged-cell
\* handling is on and the value read returned rows; and when the metadata
\* request has failed, the read ends returning the rows it read, with no
\* merged region and no annotation on any displayed row.
C26_MetadataFailureTolerated ==
    tool = "read_sheet_values"
        => /\ pc = "await_meta"
                 => opts.handle_merged_cells /\ Len(opts.values) > 0
           /\ log # << >>
                 => /\ pc = "done"
                    /\ opts.handle_merged_cells /\ Len(opts.values) > 0
                    /\ outcome = Returned("Successfully read",
                                          Some(Len(opts.values)))
                    /\ merged_regions = << >>
                    /\ \A k \in 1 .. Len(displayed) :
                          displayed[k].annotations = << >>

\* the metadata request of a read of "S!B2:C3" failed, on a sheet with a
\* merge over the range: three rows are returned without annotation
C26_Witness ==
    /\ tool = "read_sheet_values"
    /\ pc = "done"
    /\ log = <<"Could not fetch merge information">>
    /\ range_name = <<83, 33, 66, 50, 58, 67, 51>>
    /\ Len(sheets) = 1
    /\ sheets[1].merges = <<Merge(2, 3, 1, 3)>>
    /\ Len(opts.values) = 3
    /\ outcome = Returned("Successfully read", Some(3))
    /\ merged_regions = << >>

\* C27: the field mask of the repeatCell request format_cells dispatches
\* covers exactly the formatting attributes the caller supplied, and with
\* no attribute supplied nothing is dispatched.
C27_FieldMask ==
    tool = "format_cells"
        => /\ opts.supplied = {} => dispatched = << >>
           /\ \A b \in 1 .. Len(dispatched) :
                 \A r \in 1 .. Len(dispatched[b]) :
                     Covered(dispatched[b][r].detail.fields) = opts.supplied

\* C28: the rule of every setDataValidation request add_data_validation
\* dispatches has a condition.
C28_RuleHasCondition ==
    tool = "add_data_validation"
        => \A b \in 1 .. Len(dispatched) :
               \A r \in 1 .. Len(dispatched[b]) :
                   /\ ~IsNone(dispatched[b][r].detail.rule)
                   /\ ~IsNone(Val(dispatched[b][r].detail.rule).condition)

\* C29: for TEXT_LENGTH and a range_name [Sheet!]<COL><ROW>[:<COL><ROW>]
\* whose first corner is its top-left one, the cell the formula applies LEN
\* to is the first corner, without the sheet qualifier.
C29_TextLengthFirstCell ==
    (/\ tool = "add_data_validation"
     /\ opts.validation_type = "TEXT_LENGTH"
     /\ ExactSpan(Unqualified(range_name))
     /\ Decodable(parsed)
     /\ Val(parsed.start_row) < Val(parsed.end_row)
     /\ Val(parsed.start_col) < Val(parsed.end_col))
        => \A b \in 1 .. Len(dispatched) :
               \A r \in 1 .. Len(dispatched[b]) :
                   Val(dispatched[b][r].detail.rule).first_cell
                       = FirstCorner(Unqualified(range_name))

====
